---- MODULE Spec2Model ----
(***************************************************************************)
(* The peer address store of rust-libp2p (misc/peer-store): the in-memory  *)
(* store (memory_store.rs) and the Behaviour adapter (behaviour.rs).       *)
(*                                                                         *)
(* A PeerAddressRecord is an LruCache<Multiaddr, AddressRecord>.  It is    *)
(* modelled as a sequence of entries in the cache's own list order: index  *)
(* 1 is the head of the list (most recently used), index Len is the tail   *)
(* (least recently used, the eviction victim).  LruCache::iter walks the   *)
(* list from head to tail.                                                 *)
(*                                                                         *)
(* The module also holds the inbound handshake of dcutr                    *)
(* (protocols/dcutr/src/protocol/inbound.rs), one run of it, as a          *)
(* specification of its own (HandshakeSpec).                               *)
(***************************************************************************)
EXTENDS Naturals, Sequences, FiniteSets, TLC

\* ----------------------------------------------------------------- bounds
Peers == {"p1", "p2"}
\* The addresses the environment ever reports for a peer.
AddrsOf(p) == IF p = "p1" THEN {"a1", "a2", "a3"} ELSE {"b1"}
\* Config::record_capacity and Config::record_ttl of the store instance.
Capacity == 2
Ttl == 0
\* The clock (Instant::now) runs over 0..MaxTime.
MaxTime == 1
\* Longest failed_addresses list of a ConnectionEstablished event.
MaxFailed == 1
\* Longest ObsAddrs list of a HolePunch message the remote sends.
MaxObsAddrs == 2
\* Longest `candidates` list the handshake is given.
MaxCandidates == 1

\* ------------------------------------------------------------------ types
Manual == "Manual"
FromBehaviour == "Behaviour"
DirectConnection == "DirectConnection"

None == <<>>
Some(x) == <<x>>

\* store::Event, what a Store hands to the Behaviour.
RecordUpdated(p) == [kind |-> "store::Event::RecordUpdated", peer |-> p]
FromStore(e) == [kind |-> "store::Event::Store", ev |-> e]
\* behaviour::Event, what the Behaviour hands to the swarm.
EventRecordUpdated(p) == [kind |-> "Event::RecordUpdated", peer |-> p]
EventStore(e) == [kind |-> "Event::Store", ev |-> e]
Pending == [poll |-> "Pending"]
Ready(e) == [poll |-> "Ready", event |-> e]

VARIABLES
    address_book,    \* MemoryStore.address_book : peer -> PeerAddressRecord
    now,             \* the value Instant::now() returns
    pending_events,  \* Behaviour.pending_events
    last,            \* the call that has just returned: operation, arguments, result
    pre,             \* address_book as it was when that call was made
    pre_events,      \* pending_events as it was when that call was made
    \* One run of dcutr's inbound handshake (protocol/inbound.rs):
    pc,              \* where the handshake stands: the await it is suspended at
    stream,          \* the frames it has read from, and written to, the stream
    candidates,      \* its argument `candidates`
    obs_addrs,       \* its local `obs_addrs`
    result           \* what it has returned

store_vars == <<address_book, now, pending_events, last, pre, pre_events>>
handshake_vars == <<pc, stream, candidates, obs_addrs, result>>
vars == <<store_vars, handshake_vars>>

\* ------------------------------------------------------- record::AddressRecord
NewAddressRecord(a, source, should_expire, t) ==
    [address |-> a, last_seen |-> t, source |-> source,
     should_expire |-> should_expire]

update_last_seen(r, t) == [r EXCEPT !.last_seen = t]

is_expired_NoFlag(r, t, ttl) == t - r.last_seen > ttl

is_expired(r, t, ttl) == r.should_expire /\ t - r.last_seen > ttl

\* ------------------------------------------------------------- lru::LruCache
Contains(cache, a) == \E i \in 1..Len(cache) : cache[i].address = a
IndexOf(cache, a) == CHOOSE i \in 1..Len(cache) : cache[i].address = a
Without(cache, a) == SelectSeq(cache, LAMBDA e : e.address # a)
Keys(cache) == {cache[i].address : i \in 1..Len(cache)}

\* LruCache::get_mut on a present key: the node moves to the head.
LruGetMut_NoMove(cache, a, t) ==
    [i \in 1..Len(cache) |->
        IF cache[i].address = a THEN update_last_seen(cache[i], t) ELSE cache[i]]

LruGetMut(cache, a, t) ==
    <<update_last_seen(cache[IndexOf(cache, a)], t)>> \o Without(cache, a)

\* LruCache::get_or_insert on an absent key: a full cache gives up its tail
\* node, then the new node is attached at the head.
LruGetOrInsert_NoEvict(cache, v) == <<v>> \o cache
LruGetOrInsert_EvictHead(cache, v) ==
    IF Len(cache) = Capacity THEN <<v>> \o Tail(cache) ELSE <<v>> \o cache

LruGetOrInsert(cache, v) ==
    IF Len(cache) = Capacity
    THEN <<v>> \o SubSeq(cache, 1, Len(cache) - 1)
    ELSE <<v>> \o cache

\* LruCache::pop
LruPop_Head(cache, a) == IF Contains(cache, a) THEN Tail(cache) ELSE cache

LruPop(cache, a) == Without(cache, a)

\* LruCache::iter: most recently used first.
LruIter_Rev(cache) == [i \in 1..Len(cache) |-> cache[Len(cache) + 1 - i]]

LruIter(cache) == cache

\* ------------------------------------------------- record::PeerAddressRecord
record_update_address_AlwaysTrue(rec, a, source, should_expire, t) ==
    IF Contains(rec, a)
    THEN [rec |-> LruGetMut(rec, a, t), ret |-> TRUE]
    ELSE [rec |-> LruGetOrInsert(rec, NewAddressRecord(a, source, should_expire, t)),
          ret |-> TRUE]

record_update_address_Overwrite(rec, a, source, should_expire, t) ==
    IF Contains(rec, a)
    THEN [rec |-> <<NewAddressRecord(a, source, should_expire, t)>> \o Without(rec, a),
          ret |-> FALSE]
    ELSE [rec |-> LruGetOrInsert(rec, NewAddressRecord(a, source, should_expire, t)),
          ret |-> TRUE]

record_update_address(rec, a, source, should_expire, t) ==
    IF Contains(rec, a)
    THEN [rec |-> LruGetMut(rec, a, t), ret |-> FALSE]
    ELSE [rec |-> LruGetOrInsert(rec, NewAddressRecord(a, source, should_expire, t)),
          ret |-> TRUE]

record_remove_address(rec, a) ==
    [rec |-> LruPop(rec, a), ret |-> Contains(rec, a)]

RECURSIVE PopAll(_, _)
PopAll(cache, ks) ==
    IF ks = <<>> THEN cache ELSE PopAll(LruPop(cache, Head(ks).address), Tail(ks))

record_check_ttl(rec, t, ttl) ==
    LET records_to_be_deleted ==
            SelectSeq(LruIter(rec), LAMBDA r : is_expired(r, t, ttl))
    IN  PopAll(rec, records_to_be_deleted)

\* The public view of the entries: one AddressRecord per cache entry, in
\* the order of LruCache::iter.
records(rec) == LruIter(rec)

\* ------------------------------------------------------------- MemoryStore
EmptyBook == [p \in {} |-> <<>>]

HashMapInsert(book, p, rec) ==
    [q \in (DOMAIN book) \cup {p} |-> IF q = p THEN rec ELSE book[q]]

update_address_Expiring(book, p, a, source, should_expire, t) ==
    IF p \in DOMAIN book
    THEN LET r == record_update_address(record_check_ttl(book[p], t, Ttl),
                                        a, source, should_expire, t)
         IN  [book |-> [book EXCEPT ![p] = r.rec], ret |-> r.ret]
    ELSE LET r == record_update_address(<<>>, a, source, should_expire, t)
         IN  [book |-> HashMapInsert(book, p, r.rec), ret |-> TRUE]

update_address(book, p, a, source, should_expire, t) ==
    IF p \in DOMAIN book
    THEN LET r == record_update_address(book[p], a, source, should_expire, t)
         IN  [book |-> [book EXCEPT ![p] = r.rec], ret |-> r.ret]
    ELSE LET r == record_update_address(<<>>, a, source, should_expire, t)
         IN  [book |-> HashMapInsert(book, p, r.rec), ret |-> TRUE]

remove_address_CreatesPeer(book, p, a) ==
    IF p \in DOMAIN book
    THEN LET r == record_remove_address(book[p], a)
         IN  [book |-> [book EXCEPT ![p] = r.rec], ret |-> r.ret]
    ELSE [book |-> HashMapInsert(book, p, <<>>), ret |-> FALSE]

remove_address(book, p, a) ==
    IF p \in DOMAIN book
    THEN LET r == record_remove_address(book[p], a)
         IN  [book |-> [book EXCEPT ![p] = r.rec], ret |-> r.ret]
    ELSE [book |-> book, ret |-> FALSE]

\* The loop over info.failed_addresses, with is_record_updated as `acc`.
RECURSIVE RemoveFailed(_, _, _, _)
RemoveFailed(book, p, failed, acc) ==
    IF failed = <<>>
    THEN [book |-> book, ret |-> acc]
    ELSE LET r == remove_address(book, p, Head(failed))
         IN  RemoveFailed(r.book, p, Tail(failed), acc \/ r.ret)

NewExternalAddrOfPeer(p, a) ==
    [type |-> "NewExternalAddrOfPeer", peer_id |-> p, addr |-> a,
     failed_addresses |-> <<>>]
ConnectionEstablished(p, a, failed) ==
    [type |-> "ConnectionEstablished", peer_id |-> p, addr |-> a,
     failed_addresses |-> failed]
OtherEvent(p, a) ==
    [type |-> "ConnectionClosed", peer_id |-> p, addr |-> a,
     failed_addresses |-> <<>>]

on_new_external_addr_AlwaysNotify(book, ev, t) ==
    LET r == update_address(book, ev.peer_id, ev.addr, FromBehaviour, TRUE, t)
    IN  [book |-> r.book, ret |-> Some(RecordUpdated(ev.peer_id))]

on_new_external_addr(book, ev, t) ==
    LET r == update_address(book, ev.peer_id, ev.addr, FromBehaviour, TRUE, t)
    IN  [book |-> r.book,
         ret |-> IF r.ret THEN Some(RecordUpdated(ev.peer_id)) ELSE None]

on_connection_established_UpdateFirst(book, ev, t) ==
    LET u == update_address(book, ev.peer_id, ev.addr, DirectConnection, FALSE, t)
        f == RemoveFailed(u.book, ev.peer_id, ev.failed_addresses, FALSE)
    IN  [book |-> f.book,
         ret |-> IF f.ret \/ u.ret THEN Some(RecordUpdated(ev.peer_id)) ELSE None]

on_connection_established_UpdateOnly(book, ev, t) ==
    LET f == RemoveFailed(book, ev.peer_id, ev.failed_addresses, FALSE)
        u == update_address(f.book, ev.peer_id, ev.addr, DirectConnection, FALSE, t)
    IN  [book |-> u.book,
         ret |-> IF u.ret THEN Some(RecordUpdated(ev.peer_id)) ELSE None]

on_connection_established_Expirable(book, ev, t) ==
    LET f == RemoveFailed(book, ev.peer_id, ev.failed_addresses, FALSE)
        u == update_address(f.book, ev.peer_id, ev.addr, DirectConnection, TRUE, t)
    IN  [book |-> u.book,
         ret |-> IF f.ret \/ u.ret THEN Some(RecordUpdated(ev.peer_id)) ELSE None]

on_connection_established(book, ev, t) ==
    LET f == RemoveFailed(book, ev.peer_id, ev.failed_addresses, FALSE)
        u == update_address(f.book, ev.peer_id, ev.addr, DirectConnection, FALSE, t)
    IN  [book |-> u.book,
         ret |-> IF f.ret \/ u.ret THEN Some(RecordUpdated(ev.peer_id)) ELSE None]

on_swarm_event_OtherUpdates(book, ev, t) ==
    CASE ev.type = "NewExternalAddrOfPeer" -> on_new_external_addr(book, ev, t)
      [] ev.type = "ConnectionEstablished" -> on_connection_established(book, ev, t)
      [] OTHER -> on_new_external_addr(book, ev, t)

on_swarm_event(book, ev, t) ==
    CASE ev.type = "NewExternalAddrOfPeer" -> on_new_external_addr(book, ev, t)
      [] ev.type = "ConnectionEstablished" -> on_connection_established(book, ev, t)
      [] OTHER -> [book |-> book, ret |-> None]

addresses_of_peer(book, p) ==
    IF p \in DOMAIN book
    THEN Some([i \in 1..Len(book[p]) |-> records(book[p])[i].address])
    ELSE None

\* Behaviour<MemoryStore>::address_record_of_peer
address_record_of_peer(book, p) ==
    IF p \in DOMAIN book THEN Some(records(book[p])) ELSE None

check_ttl_DropsEmpty(book, t) ==
    [p \in {q \in DOMAIN book : record_check_ttl(book[q], t, Ttl) # <<>>} |->
        record_check_ttl(book[p], t, Ttl)]

check_ttl(book, t) ==
    [p \in DOMAIN book |-> record_check_ttl(book[p], t, Ttl)]

\* ---------------------------------------------------------------- Behaviour
handle_store_event_DropsStore(queue, event) ==
    IF event.kind = "store::Event::RecordUpdated"
    THEN Append(queue, EventRecordUpdated(event.peer))
    ELSE queue

handle_store_event(queue, event) ==
    IF event.kind = "store::Event::RecordUpdated"
    THEN Append(queue, EventRecordUpdated(event.peer))
    ELSE Append(queue, EventStore(event.ev))

Ok(v) == [ok |-> TRUE, val |-> v]
ConnectionDenied == [ok |-> FALSE]

handle_pending_outbound_connection_DeniesUnknown(book, maybe_peer) ==
    IF maybe_peer = None
    THEN Ok(<<>>)
    ELSE LET found == addresses_of_peer(book, maybe_peer[1])
         IN  IF found # None THEN Ok(found[1]) ELSE ConnectionDenied

handle_pending_outbound_connection(book, maybe_peer) ==
    IF maybe_peer = None
    THEN Ok(<<>>)
    ELSE LET found == addresses_of_peer(book, maybe_peer[1])
         IN  Ok(IF found # None THEN found[1] ELSE <<>>)

\* What store.poll(cx) may answer: nothing, or one store::Event.
StorePollResults ==
    {None, Some(FromStore("ev"))} \cup {Some(RecordUpdated(p)) : p \in Peers}

poll_NoPop(queue, polled) ==
    LET q == IF polled # None THEN handle_store_event(queue, polled[1]) ELSE queue
    IN  IF q # <<>>
        THEN [queue |-> q, ret |-> Ready(Head(q))]
        ELSE [queue |-> q, ret |-> Pending]

poll(queue, polled) ==
    LET q == IF polled # None THEN handle_store_event(queue, polled[1]) ELSE queue
    IN  IF q # <<>>
        THEN [queue |-> Tail(q), ret |-> Ready(Head(q))]
        ELSE [queue |-> q, ret |-> Pending]

\* ------------------------------------------------------------ call history
Pairs(book) == UNION {{<<p, a>> : a \in Keys(book[p])} : p \in DOMAIN book}

Call(op, p, a, failed, ret) ==
    [op |-> op, peer |-> p, addr |-> a, failed |-> failed, ret |-> ret,
     polled |-> None]

Idle == Call("idle", "-", "-", <<>>, None)

RECURSIVE SeqsUpTo(_, _)
SeqsUpTo(S, n) ==
    IF n = 0 THEN {<<>>}
    ELSE LET shorter == SeqsUpTo(S, n - 1)
         IN  shorter \cup {Append(s, x) : s \in shorter, x \in S}

\* The (source, should_expire) pairs of direct calls on the store.
ManualArgs == {<<Manual, TRUE>>}

\* ------------------------------------------------------------------- Init
StoreInit ==
    /\ address_book = EmptyBook
    /\ now = 0
    /\ pending_events = <<>>
    /\ last = Idle
    /\ pre = EmptyBook
    /\ pre_events = <<>>

\* No handshake is running.
NoHandshake ==
    /\ pc = "none"
    /\ stream = [read |-> <<>>, written |-> <<>>]
    /\ candidates = <<>>
    /\ obs_addrs = <<>>
    /\ result = None

Init == StoreInit /\ NoHandshake

\* ---------------------------------------------------------------- actions
\* Every call is made by the one driving loop: it makes a call, takes the
\* result (Return), and only then makes the next call.

\* Time passes between two calls (thread::sleep in the tests).
Sleep ==
    /\ last = Idle
    /\ now < MaxTime
    /\ now' = now + 1
    /\ UNCHANGED <<address_book, pending_events, last, pre, pre_events>>
    /\ UNCHANGED handshake_vars

UpdateAddress_Notifies(p, a, source, should_expire) ==
    LET r == update_address(address_book, p, a, source, should_expire, now)
    IN  /\ last = Idle
        /\ address_book' = r.book
        /\ last' = Call("update_address", p, a, <<>>, r.ret)
        /\ pre' = address_book
        /\ pre_events' = pending_events
        /\ UNCHANGED handshake_vars
        /\ pending_events' = Append(pending_events, EventRecordUpdated(p))
        /\ UNCHANGED now

\* store_mut().update_address(p, a, source, should_expire)
UpdateAddress(p, a, source, should_expire) ==
    LET r == update_address(address_book, p, a, source, should_expire, now)
    IN  /\ last = Idle
        /\ address_book' = r.book
        /\ last' = Call("update_address", p, a, <<>>, r.ret)
        /\ pre' = address_book
        /\ pre_events' = pending_events
        /\ UNCHANGED handshake_vars
        /\ UNCHANGED <<now, pending_events>>

\* store_mut().remove_address(p, a)
RemoveAddress(p, a) ==
    LET r == remove_address(address_book, p, a)
    IN  /\ last = Idle
        /\ address_book' = r.book
        /\ last' = Call("remove_address", p, a, <<>>, r.ret)
        /\ pre' = address_book
        /\ pre_events' = pending_events
        /\ UNCHANGED handshake_vars
        /\ UNCHANGED <<now, pending_events>>

\* store_mut().check_ttl()
CheckTtl ==
    /\ last = Idle
    /\ address_book' = check_ttl(address_book, now)
    /\ last' = Call("check_ttl", "-", "-", <<>>, None)
    /\ pre' = address_book
    /\ pre_events' = pending_events
    /\ UNCHANGED handshake_vars
    /\ UNCHANGED <<now, pending_events>>

\* store().addresses_of_peer(p)
AddressesOfPeer(p) ==
    /\ last = Idle
    /\ last' = Call("addresses_of_peer", p, "-", <<>>,
                    addresses_of_peer(address_book, p))
    /\ pre' = address_book
    /\ pre_events' = pending_events
    /\ UNCHANGED handshake_vars
    /\ UNCHANGED <<address_book, now, pending_events>>

AddressRecordOfPeer_Promotes(p) ==
    /\ last = Idle
    /\ last' = Call("address_record_of_peer", p, "-", <<>>,
                    address_record_of_peer(address_book, p))
    /\ address_book' =
          [q \in DOMAIN address_book |->
              IF q = p THEN LruIter_Rev(address_book[q]) ELSE address_book[q]]
    /\ pre' = address_book
    /\ pre_events' = pending_events
    /\ UNCHANGED handshake_vars
    /\ UNCHANGED <<now, pending_events>>

\* Behaviour<MemoryStore>::address_record_of_peer(p)
AddressRecordOfPeer(p) ==
    /\ last = Idle
    /\ last' = Call("address_record_of_peer", p, "-", <<>>,
                    address_record_of_peer(address_book, p))
    /\ pre' = address_book
    /\ pre_events' = pending_events
    /\ UNCHANGED handshake_vars
    /\ UNCHANGED <<address_book, now, pending_events>>

\* Behaviour::handle_pending_outbound_connection(_, maybe_peer, _, _)
HandlePendingOutboundConnection(maybe_peer) ==
    /\ last = Idle
    /\ last' = Call("handle_pending_outbound_connection",
                    IF maybe_peer = None THEN "-" ELSE maybe_peer[1], "-", <<>>,
                    handle_pending_outbound_connection(address_book, maybe_peer))
    /\ pre' = address_book
    /\ pre_events' = pending_events
    /\ UNCHANGED handshake_vars
    /\ UNCHANGED <<address_book, now, pending_events>>

\* Behaviour::on_swarm_event: the store reacts; what it returns is dropped.
OnSwarmEvent(ev) ==
    LET r == on_swarm_event(address_book, ev, now)
    IN  /\ last = Idle
        /\ address_book' = r.book
        /\ last' = Call(ev.type, ev.peer_id, ev.addr, ev.failed_addresses, r.ret)
        /\ pre' = address_book
        /\ pre_events' = pending_events
        /\ UNCHANGED handshake_vars
        /\ UNCHANGED <<now, pending_events>>

\* Behaviour::poll
Poll(polled) ==
    LET r == poll(pending_events, polled)
    IN  /\ last = Idle
        /\ pending_events' = r.queue
        /\ last' = [Call("poll", "-", "-", <<>>, r.ret) EXCEPT !.polled = polled]
        /\ pre' = address_book
        /\ pre_events' = pending_events
        /\ UNCHANGED handshake_vars
        /\ UNCHANGED <<address_book, now>>

\* The caller has taken the result of the call.
Return ==
    /\ last # Idle
    /\ last' = Idle
    /\ pre' = address_book
    /\ pre_events' = pending_events
    /\ UNCHANGED handshake_vars
    /\ UNCHANGED <<address_book, now, pending_events>>

Next ==
    \/ Sleep
    \/ \E p \in Peers : \E a \in AddrsOf(p), m \in ManualArgs :
          UpdateAddress(p, a, m[1], m[2])
    \/ \E p \in Peers : \E a \in AddrsOf(p) : RemoveAddress(p, a)
    \/ CheckTtl
    \/ \E p \in Peers : AddressesOfPeer(p)
    \/ \E maybe_peer \in {None} \cup {Some(p) : p \in Peers} :
          HandlePendingOutboundConnection(maybe_peer)
    \/ \E p \in Peers : \E a \in AddrsOf(p) : OnSwarmEvent(NewExternalAddrOfPeer(p, a))
    \/ \E p \in Peers : \E a \in AddrsOf(p), f \in SeqsUpTo(AddrsOf(p), MaxFailed) :
          OnSwarmEvent(ConnectionEstablished(p, a, f))
    \/ \E p \in Peers : \E a \in AddrsOf(p) : OnSwarmEvent(OtherEvent(p, a))
    \/ \E polled \in StorePollResults : Poll(polled)
    \/ Return

Spec == Init /\ [][Next]_vars

\* The same driving loop, which also reads the full records of a peer.
QueryNext ==
    \/ Next
    \/ \E p \in Peers : AddressRecordOfPeer(p)

QuerySpec == Init /\ [][QueryNext]_vars

\* ------------------------------------------- dcutr: protocol::inbound::handshake
\* A Multiaddr is the sequence of its protocols; its bytes are the sequence
\* of their codes.
Direct == <<"ip4", "tcp">>
Relayed == <<"ip4", "tcp", "p2p-circuit">>
Multiaddrs == {Direct, Relayed}

Protocols == {"ip4", "tcp", "p2p-circuit"}
Code(p) ==
    CASE p = "ip4" -> 4
      [] p = "tcp" -> 6
      [] p = "p2p-circuit" -> 290

\* Multiaddr::to_vec
to_vec(a) == [i \in 1..Len(a) |-> Code(a[i])]

\* Multiaddr::try_from(bytes): the address, or nothing for bytes that are none.
try_from(bytes) ==
    IF \A i \in 1..Len(bytes) : \E p \in Protocols : Code(p) = bytes[i]
    THEN Some([i \in 1..Len(bytes) |->
                  CHOOSE p \in Protocols : Code(p) = bytes[i]])
    ELSE None

\* Bytes that are no Multiaddr.
Junk == <<4, 0>>
\* What a remote may put into ObsAddrs.
WireAddrs == {to_vec(a) : a \in Multiaddrs} \cup {Junk}

CONNECT == "CONNECT"
SYNC == "SYNC"
HolePunch(type_pb, ObsAddrs) ==
    [frame |-> "message", type_pb |-> type_pb, ObsAddrs |-> ObsAddrs]
\* stream.next() at the end of the stream, and on a frame the codec rejects.
Eof == [frame |-> "eof", type_pb |-> "-", ObsAddrs |-> <<>>]
CodecError == [frame |-> "codec error", type_pb |-> "-", ObsAddrs |-> <<>>]
\* What stream.next() may yield.
Frames ==
    {Eof, CodecError}
        \cup {HolePunch(t, o) : t \in {CONNECT, SYNC},
                               o \in SeqsUpTo(WireAddrs, MaxObsAddrs)}

Err(e) == [ok |-> FALSE, err |-> e]
Io(kind) == [error |-> "Io", kind |-> kind]
Protocol(violation) == [error |-> "Protocol", violation |-> violation]

is_relayed(a) == \E i \in 1..Len(a) : a[i] = "p2p-circuit"

\* The filter_map and the filter over ObsAddrs.
RECURSIVE parse_obs_addrs_KeepsRelayed(_)
parse_obs_addrs_KeepsRelayed(ObsAddrs) ==
    IF ObsAddrs = <<>> THEN <<>>
    ELSE LET a == try_from(Head(ObsAddrs))
             rest == parse_obs_addrs_KeepsRelayed(Tail(ObsAddrs))
         IN  IF a = None THEN rest ELSE <<a[1]>> \o rest

RECURSIVE parse_obs_addrs(_)
parse_obs_addrs(ObsAddrs) ==
    IF ObsAddrs = <<>> THEN <<>>
    ELSE LET a == try_from(Head(ObsAddrs))
             rest == parse_obs_addrs(Tail(ObsAddrs))
         IN  IF a = None \/ is_relayed(a[1]) THEN rest ELSE <<a[1]>> \o rest

\* handshake(stream, candidates) is called.
HandshakeInit ==
    /\ StoreInit
    /\ pc = "first next"
    /\ stream = [read |-> <<>>, written |-> <<>>]
    /\ candidates \in SeqsUpTo(Multiaddrs, MaxCandidates)
    /\ obs_addrs = <<>>
    /\ result = None

Returns(r) ==
    /\ pc' = "returned"
    /\ result' = Some(r)

\* The first stream.next().await completes, up to the next await or return.
FirstNext(frame) ==
    /\ pc = "first next"
    /\ stream' = [stream EXCEPT !.read = Append(@, frame)]
    /\ CASE frame = Eof ->
               Returns(Err(Io("UnexpectedEof"))) /\ UNCHANGED obs_addrs
         [] frame = CodecError ->
               Returns(Err(Protocol("Codec"))) /\ UNCHANGED obs_addrs
         [] OTHER ->
               IF frame.ObsAddrs = <<>>
               THEN Returns(Err(Protocol("NoAddresses"))) /\ UNCHANGED obs_addrs
               ELSE /\ obs_addrs' = parse_obs_addrs(frame.ObsAddrs)
                    /\ IF frame.type_pb # CONNECT
                       THEN Returns(Err(Protocol("UnexpectedTypeSync")))
                       ELSE pc' = "send" /\ UNCHANGED result
    /\ UNCHANGED <<candidates, store_vars>>

\* stream.send(msg).await completes: the message is written, or the sink fails.
Send(sent) ==
    /\ pc = "send"
    /\ IF sent
       THEN /\ stream' = [stream EXCEPT !.written =
                             Append(@, HolePunch(CONNECT,
                                 [i \in 1..Len(candidates) |-> to_vec(candidates[i])]))]
            /\ pc' = "second next"
            /\ UNCHANGED result
       ELSE /\ Returns(Err(Protocol("Codec")))
            /\ UNCHANGED stream
    /\ UNCHANGED <<candidates, obs_addrs, store_vars>>

\* The second stream.next().await completes.
SecondNext(frame) ==
    /\ pc = "second next"
    /\ stream' = [stream EXCEPT !.read = Append(@, frame)]
    /\ CASE frame = Eof -> Returns(Err(Io("UnexpectedEof")))
         [] frame = CodecError -> Returns(Err(Protocol("Codec")))
         [] OTHER ->
               IF frame.type_pb # SYNC
               THEN Returns(Err(Protocol("UnexpectedTypeConnect")))
               ELSE Returns(Ok(obs_addrs))
    /\ UNCHANGED <<candidates, obs_addrs, store_vars>>

HandshakeNext ==
    \/ \E frame \in Frames : FirstNext(frame)
    \/ \E sent \in BOOLEAN : Send(sent)
    \/ \E frame \in Frames : SecondNext(frame)

HandshakeSpec == HandshakeInit /\ [][HandshakeNext]_vars

\* ------------------------------------------------------------- properties
Range(s) == {s[i] : i \in 1..Len(s)}
Addresses(rec) == [i \in 1..Len(rec) |-> rec[i].address]
Stored(book, p, a) == p \in DOMAIN book /\ Contains(book[p], a)
Entry(book, p, a) == book[p][IndexOf(book[p], a)]

\* The calls that end in update_address(last.peer, last.addr, ..).
TouchOps == {"update_address", "NewExternalAddrOfPeer", "ConnectionEstablished"}
InsertOps == {"update_address", "NewExternalAddrOfPeer"}

\* C1: in every reachable state every tracked peer's record holds at most
\* record_capacity addresses.
C1_CapacityBound ==
    \A p \in DOMAIN address_book : Len(address_book[p]) <= Capacity

\* A self-reported address has just been inserted into a full record.
C1_Witness ==
    /\ last.op = "NewExternalAddrOfPeer"
    /\ last.ret # None
    /\ last.peer \in DOMAIN pre
    /\ Len(pre[last.peer]) = Capacity
    /\ Len(address_book[last.peer]) = Capacity

\* C2: an update_address that inserts an absent address into a record
\* holding exactly record_capacity addresses removes exactly one entry, the
\* least recently used one (the tail of the cache, which no other entry
\* predates), whatever its provenance or should_expire flag, and keeps every
\* other entry; below capacity nothing is removed.
C2_EvictsOnlyLru ==
    (last.op \in InsertOps /\ last.peer \in DOMAIN pre
        /\ ~Contains(pre[last.peer], last.addr))
    => LET old == pre[last.peer]
           new == address_book[last.peer]
           added == {e \in Range(new) : e.address = last.addr}
       IN  /\ Cardinality(added) = 1
           /\ IF Len(old) = Capacity
              THEN LET victim == old[Len(old)]
                   IN  /\ Range(new) = (Range(old) \ {victim}) \cup added
                       /\ \A e \in Range(old) : victim.last_seen <= e.last_seen
                       /\ Len(new) = Len(old)
              ELSE /\ Range(new) = Range(old) \cup added
                   /\ Len(new) = Len(old) + 1

\* A durable DirectConnection address was the least recently used one and
\* has been evicted in favour of a new address, while an expirable entry stays.
C2_Witness ==
    /\ last.op = "update_address"
    /\ last.ret = TRUE
    /\ last.peer \in DOMAIN pre
    /\ Len(pre[last.peer]) = Capacity
    /\ pre[last.peer][Capacity].source = DirectConnection
    /\ ~pre[last.peer][Capacity].should_expire
    /\ pre[last.peer][1].should_expire
    /\ ~Contains(address_book[last.peer], pre[last.peer][Capacity].address)
    /\ Contains(address_book[last.peer], pre[last.peer][1].address)

\* C3: the order of a record is the order of the last insert-or-refresh of
\* its addresses: no entry is ahead of one seen later, the address a call
\* has just inserted or refreshed is the most recently used one, and the
\* entries a call does not touch keep their data and their relative order.
C3_RecencyOrder ==
    /\ \A p \in DOMAIN address_book :
          \A i, j \in 1..Len(address_book[p]) :
             i < j => address_book[p][i].last_seen >= address_book[p][j].last_seen
    /\ last.op \in TouchOps =>
          /\ Stored(address_book, last.peer, last.addr)
          /\ address_book[last.peer][1].address = last.addr
          /\ address_book[last.peer][1].last_seen = now
    /\ last.op # "idle" =>
          \A p \in DOMAIN pre :
             LET touched == IF last.op \in TouchOps /\ p = last.peer
                            THEN last.addr ELSE "-"
                 rest == SelectSeq(address_book[p], LAMBDA e : e.address # touched)
             IN  rest = SelectSeq(pre[p], LAMBDA e : e \in Range(rest))

\* The least recently used of two addresses has been refreshed: it is now the
\* most recently used one and the other one the least recently used.
C3_Witness ==
    /\ last.op = "update_address"
    /\ last.ret = FALSE
    /\ Len(pre[last.peer]) = 2
    /\ pre[last.peer][2].address = last.addr
    /\ Addresses(address_book[last.peer]) = <<last.addr, pre[last.peer][1].address>>

\* C4 as stated: records() and addresses_of_peer yield the entries least
\* recently used first, most recently used last.
C4_LruFirst ==
    /\ \A p \in DOMAIN address_book :
          LET r == records(address_book[p])
          IN  \A i, j \in 1..Len(r) : i < j => r[i].last_seen <= r[j].last_seen
    /\ last.op \in TouchOps =>
          LET r == records(address_book[last.peer])
          IN  r[Len(r)].address = last.addr
    /\ (last.op = "addresses_of_peer" /\ last.ret # None) =>
          last.ret[1] = Addresses(records(address_book[last.peer]))

\* C4 amended: records() and addresses_of_peer yield the entries most
\* recently used first, least recently used last: no entry comes before one
\* seen later, the address just inserted or refreshed comes first, and
\* addresses_of_peer yields the addresses of records() in the same order.
C4_MruFirst ==
    /\ \A p \in DOMAIN address_book :
          LET r == records(address_book[p])
          IN  \A i, j \in 1..Len(r) : i < j => r[i].last_seen >= r[j].last_seen
    /\ last.op \in TouchOps =>
          records(address_book[last.peer])[1].address = last.addr
    /\ (last.op = "addresses_of_peer" /\ last.ret # None) =>
          LET r == records(address_book[last.peer])
          IN  /\ last.ret[1] = Addresses(r)
              /\ \A i, j \in 1..Len(r) : i < j => r[i].last_seen >= r[j].last_seen

\* addresses_of_peer has answered with two addresses, the later seen first.
C4_Witness ==
    /\ last.op = "addresses_of_peer"
    /\ last.ret # None
    /\ Len(last.ret[1]) = 2
    /\ Entry(address_book, last.peer, last.ret[1][1]).last_seen
          > Entry(address_book, last.peer, last.ret[1][2]).last_seen

\* C5: update_address returns true exactly when the (peer, address) pair was
\* not stored when it was called (the record of an unknown peer is created
\* by the call), and false when the pair was stored.
C5_TrueIffNew ==
    last.op = "update_address" =>
        /\ last.ret = ~Stored(pre, last.peer, last.addr)
        /\ last.peer \in DOMAIN address_book
        /\ Stored(address_book, last.peer, last.addr)

\* A refresh of a stored pair has returned false.
C5_Witness ==
    /\ last.op = "update_address"
    /\ last.ret = FALSE
    /\ Stored(pre, last.peer, last.addr)
    /\ Len(pre[last.peer]) = Capacity

\* C6: check_ttl removes, for every peer, exactly the entries with
\* should_expire and now - last_seen > ttl; every other entry stays as it was.
C6_ExpiresExactly ==
    last.op = "check_ttl" =>
        /\ DOMAIN address_book = DOMAIN pre
        /\ \A p \in DOMAIN pre :
              address_book[p] =
                 SelectSeq(pre[p],
                           LAMBDA e : ~(e.should_expire /\ now - e.last_seen > Ttl))

\* A maintenance run has removed an old expirable address and kept an
\* equally old durable one of the same peer.
C6_Witness ==
    /\ last.op = "check_ttl"
    /\ \E p \in DOMAIN pre :
          \E e, d \in Range(pre[p]) :
             /\ e.should_expire /\ now - e.last_seen > Ttl
             /\ ~d.should_expire /\ now - d.last_seen > Ttl
             /\ ~Contains(address_book[p], e.address)
             /\ Contains(address_book[p], d.address)

\* C7: for a peer never observed, addresses_of_peer returns None and
\* remove_address returns false, and neither changes the address book.
C7_UnknownPeer ==
    /\ (last.op = "addresses_of_peer" /\ last.peer \notin DOMAIN pre) =>
          last.ret = None /\ address_book = pre
    /\ (last.op = "remove_address" /\ last.peer \notin DOMAIN pre) =>
          last.ret = FALSE /\ address_book = pre

\* remove_address was called for an unknown peer while another peer is tracked.
C7_Witness ==
    /\ last.op = "remove_address"
    /\ last.peer \notin DOMAIN pre
    /\ \E q \in DOMAIN pre : Len(pre[q]) > 0

\* C8: a lifecycle event whose store reaction is a RecordUpdated
\* notification appends that notification to the pending queue.
C8_NotificationQueued ==
    (last.op \in {"NewExternalAddrOfPeer", "ConnectionEstablished"}
        /\ last.ret # None)
    => /\ pending_events # <<>>
       /\ pending_events[Len(pending_events)] = EventRecordUpdated(last.peer)

\* C9: NewExternalAddrOfPeer(peer, addr) performs
\* update_address(peer, addr, Behaviour, should_expire = true) and returns
\* RecordUpdated(peer) iff addr was not stored for peer, else nothing.
C9_NewExternalAddr ==
    last.op = "NewExternalAddrOfPeer" =>
        /\ last.ret = IF Stored(pre, last.peer, last.addr)
                      THEN None ELSE Some(RecordUpdated(last.peer))
        /\ address_book =
              update_address(pre, last.peer, last.addr, FromBehaviour, TRUE, now).book
        /\ ~Stored(pre, last.peer, last.addr) =>
              address_book[last.peer][1] =
                 [address |-> last.addr, last_seen |-> now,
                  source |-> FromBehaviour, should_expire |-> TRUE]

\* A peer has reported an address that was already stored: no notification.
C9_Witness ==
    /\ last.op = "NewExternalAddrOfPeer"
    /\ last.ret = None
    /\ Stored(pre, last.peer, last.addr)

\* C10: after ConnectionEstablished the succeeded address is stored for the
\* peer, also when it is in the failed list (it is then a new entry, the old
\* one having been removed first), and every failed address other than the
\* succeeded one is absent.
C10_RemovalsBeforeUpdate ==
    last.op = "ConnectionEstablished" =>
        /\ Stored(address_book, last.peer, last.addr)
        /\ \A x \in Range(last.failed) :
              x # last.addr => ~Stored(address_book, last.peer, x)
        /\ last.addr \in Range(last.failed) =>
              /\ address_book[last.peer][1] =
                    [address |-> last.addr, last_seen |-> now,
                     source |-> DirectConnection, should_expire |-> FALSE]
              /\ last.ret = Some(RecordUpdated(last.peer))

\* The succeeded address is also a failed one and was stored as self-reported.
C10_Witness ==
    /\ last.op = "ConnectionEstablished"
    /\ last.addr \in Range(last.failed)
    /\ Stored(pre, last.peer, last.addr)
    /\ Entry(pre, last.peer, last.addr).source = FromBehaviour
    /\ Stored(address_book, last.peer, last.addr)

\* The behaviour::Event that handle_store_event makes of a store::Event.
Wrap(ev) ==
    IF ev.kind = "store::Event::RecordUpdated"
    THEN EventRecordUpdated(ev.peer) ELSE EventStore(ev.ev)

\* C11: ConnectionEstablished returns RecordUpdated(peer) iff a failed
\* address was stored (its removal returned true) or the succeeded address
\* was not stored (its update returned true); when no failed address was
\* stored and the succeeded one was, it returns nothing.
C11_NotifiesIffChanged ==
    last.op = "ConnectionEstablished" =>
        LET removal == \E x \in Range(last.failed) : Stored(pre, last.peer, x)
            update == ~Stored(pre, last.peer, last.addr)
                         \/ last.addr \in Range(last.failed)
        IN  /\ last.ret = IF removal \/ update
                          THEN Some(RecordUpdated(last.peer)) ELSE None
            /\ (~removal /\ Stored(pre, last.peer, last.addr)) => last.ret = None

\* A connection over a stored address, with a failed address that was not
\* stored: no notification.
C11_Witness ==
    /\ last.op = "ConnectionEstablished"
    /\ last.failed # <<>>
    /\ last.ret = None
    /\ Stored(pre, last.peer, last.addr)

C14_DialCandidates ==
    last.op = "handle_pending_outbound_connection" =>
        /\ last.ret.ok
        /\ IF last.peer \in DOMAIN pre
           THEN /\ Range(last.ret.val) = Keys(pre[last.peer])
                /\ Len(last.ret.val) = Len(pre[last.peer])
           ELSE last.ret.val = <<>>
        /\ address_book = pre

\* The dialer has been given the two addresses stored for a peer.
C14_Witness ==
    /\ last.op = "handle_pending_outbound_connection"
    /\ last.peer \in DOMAIN pre
    /\ last.ret.ok
    /\ Len(last.ret.val) = 2

\* The maintenance of p's record at time t leaves address a in it.
Survives(book, p, a, t) == Contains(record_check_ttl(book[p], t, Ttl), a)

C16_ManualUpdateEmits ==
    last.op = "update_address" =>
        \E i \in 1..Len(pending_events) :
           pending_events[i] = EventRecordUpdated(last.peer)

\* C17: a peer that has an entry in the address book keeps it through every
\* call, and addresses_of_peer answers for it with a present sequence, an
\* empty one when none of its addresses is left.
C17_PeerEntryKept ==
    /\ DOMAIN pre \subseteq DOMAIN address_book
    /\ last.op \in TouchOps => last.peer \in DOMAIN address_book
    /\ (last.op = "addresses_of_peer" /\ last.peer \in DOMAIN pre) =>
          /\ last.ret # None
          /\ Len(last.ret[1]) = Len(pre[last.peer])

\* addresses_of_peer has answered with the empty sequence for a peer whose
\* addresses are all gone.
C17_Witness ==
    /\ last.op = "addresses_of_peer"
    /\ last.peer \in DOMAIN pre
    /\ last.ret = Some(<<>>)

\* The entries of pre[p] that the failed list of the call does not remove.
NotFailed(p) ==
    SelectSeq(pre[p], LAMBDA e : ~(last.op = "ConnectionEstablished"
                                     /\ p = last.peer
                                     /\ e.address \in Range(last.failed)))

\* C18: a call other than check_ttl makes a stored address disappear only as
\* the argument of remove_address, as a failed address of
\* ConnectionEstablished, or as the least recently used entry of a full
\* record into which the call inserts an absent address; an entry is not
\* removed for its age.
C18_NoExpiryOutsideMaintenance ==
    last.op \notin {"check_ttl", "idle"} =>
        \A p \in DOMAIN pre :
            \A i \in 1..Len(pre[p]) :
                LET a == pre[p][i].address
                IN  \/ Contains(address_book[p], a)
                    \/ last.op = "remove_address" /\ p = last.peer /\ a = last.addr
                    \/ /\ last.op = "ConnectionEstablished"
                       /\ p = last.peer
                       /\ a \in Range(last.failed)
                    \/ /\ last.op \in TouchOps
                       /\ p = last.peer
                       /\ Len(NotFailed(p)) = Capacity
                       /\ ~Contains(NotFailed(p), last.addr)
                       /\ a = NotFailed(p)[Capacity].address

\* A call that is not a maintenance call was made while an expirable entry
\* older than the ttl was stored: the entry is still stored, as it was.
C18_Witness ==
    /\ last.op \in {"update_address", "poll", "ConnectionEstablished"}
    /\ \E p \in DOMAIN pre :
          \E e \in Range(pre[p]) :
             /\ e.should_expire
             /\ now - e.last_seen > Ttl
             /\ e \in Range(address_book[p])
             /\ last.op = "update_address" => (p = last.peer /\ e.address # last.addr)

\* C19 as stated: the succeeded address of a ConnectionEstablished event is
\* removed by no later maintenance run, whatever its age and however it was
\* first stored.
C19_SucceededIsDurable ==
    last.op = "ConnectionEstablished" =>
        \A t \in now..MaxTime :
            Stored(check_ttl(address_book, t), last.peer, last.addr)

\* C19 amended: the succeeded address of a ConnectionEstablished event is
\* durable when the event creates its entry (the address was not stored, or
\* was a failed address too); an entry that was already stored keeps its
\* should_expire flag, and a later maintenance run at time t removes it iff
\* that flag is set and t - last_seen > ttl.
C19_DurableWhenCreated ==
    last.op = "ConnectionEstablished" =>
        LET e == address_book[last.peer][1]
            created == ~Stored(pre, last.peer, last.addr)
                          \/ last.addr \in Range(last.failed)
        IN  /\ e.address = last.addr
            /\ e.last_seen = now
            /\ created => (~e.should_expire /\ e.source = DirectConnection)
            /\ ~created =>
                  e.should_expire = Entry(pre, last.peer, last.addr).should_expire
            /\ \A t \in now..MaxTime :
                  Survives(address_book, last.peer, last.addr, t)
                     <=> ~(e.should_expire /\ t - now > Ttl)

\* A connection was established over an address stored as self-reported and
\* expirable: the entry is still expirable, and a maintenance run after the
\* ttl removes it.
C19_Witness ==
    /\ last.op = "ConnectionEstablished"
    /\ Stored(pre, last.peer, last.addr)
    /\ last.addr \notin Range(last.failed)
    /\ Entry(pre, last.peer, last.addr).source = FromBehaviour
    /\ Entry(address_book, last.peer, last.addr).should_expire
    /\ \E t \in now..MaxTime :
          ~Stored(check_ttl(address_book, t), last.peer, last.addr)

\* C20: an update_address on a stored (peer, address) pair, made directly or
\* by a lifecycle event, changes only last_seen and the position of the
\* entry: source and should_expire stay as they were when the entry was
\* created, whatever the call passes.  Only a removal followed by a new
\* insertion gives the pair another source or should_expire.
C20_ProvenanceFixed ==
    /\ (last.op \in TouchOps /\ Stored(pre, last.peer, last.addr)
           /\ last.addr \notin Range(last.failed)) =>
          /\ address_book[last.peer][1] =
                [Entry(pre, last.peer, last.addr) EXCEPT !.last_seen = now]
          /\ Len(address_book[last.peer]) = Len(NotFailed(last.peer))
    /\ last.op # "idle" =>
          \A p \in DOMAIN pre :
             address_book[p] # pre[p] =>
                \A i \in 1..Len(pre[p]) :
                   \A j \in 1..Len(address_book[p]) :
                      LET old == pre[p][i]
                          new == address_book[p][j]
                          recreated == /\ last.op = "ConnectionEstablished"
                                       /\ p = last.peer
                                       /\ old.address = last.addr
                                       /\ last.addr \in Range(last.failed)
                      IN  (old.address = new.address /\ ~recreated) =>
                             /\ new.source = old.source
                             /\ new.should_expire = old.should_expire

\* A manual, expirable update_address has refreshed an entry created by a
\* connection: the entry is still a durable DirectConnection one.
C20_Witness ==
    /\ last.op = "update_address"
    /\ last.ret = FALSE
    /\ Entry(pre, last.peer, last.addr).source = DirectConnection
    /\ Entry(address_book, last.peer, last.addr).source = DirectConnection
    /\ ~Entry(address_book, last.peer, last.addr).should_expire
    /\ Entry(address_book, last.peer, last.addr).last_seen
          > Entry(pre, last.peer, last.addr).last_seen

\* C21: remove_address returns true exactly when the address was stored for
\* the peer, and then removes that entry only: the other entries of the peer
\* keep their data and their order, other peers are untouched; when the
\* address is not stored nothing changes.
C21_RemovesOnlyThat ==
    last.op = "remove_address" =>
        /\ last.ret = Stored(pre, last.peer, last.addr)
        /\ DOMAIN address_book = DOMAIN pre
        /\ \A q \in DOMAIN pre : q # last.peer => address_book[q] = pre[q]
        /\ last.ret =>
              /\ address_book[last.peer] =
                    SelectSeq(pre[last.peer], LAMBDA e : e.address # last.addr)
              /\ Len(address_book[last.peer]) = Len(pre[last.peer]) - 1
        /\ ~last.ret => address_book = pre

\* The least recently used address of a full record has been removed while
\* another peer is tracked too.
C21_Witness ==
    /\ last.op = "remove_address"
    /\ last.ret = TRUE
    /\ Len(pre[last.peer]) = Capacity
    /\ pre[last.peer][Capacity].address = last.addr
    /\ \E q \in DOMAIN pre : q # last.peer /\ Len(pre[q]) > 0

\* C22: a lifecycle event other than NewExternalAddrOfPeer and
\* ConnectionEstablished leaves the address book as it was and yields no
\* notification.
C22_OtherEventIgnored ==
    last.op = "ConnectionClosed" =>
        /\ address_book = pre
        /\ last.ret = None
        /\ pending_events = pre_events

\* Such an event has arrived for a peer and an address that is not stored
\* while the peer's record is not full.
C22_Witness ==
    /\ last.op = "ConnectionClosed"
    /\ last.peer \in DOMAIN pre
    /\ ~Contains(pre[last.peer], last.addr)
    /\ Len(pre[last.peer]) = 1

\* C23: addresses_of_peer, address_record_of_peer and
\* handle_pending_outbound_connection leave the address book as it was, the
\* order and last_seen of every entry included, so the next eviction victim
\* and the outcome of a maintenance run are what they were before the query.
C23_ReadsArePure ==
    last.op \in {"addresses_of_peer", "address_record_of_peer",
                 "handle_pending_outbound_connection"} =>
        /\ address_book = pre
        /\ pending_events = pre_events
        /\ \A p \in DOMAIN pre :
              /\ Len(pre[p]) > 0 =>
                    address_book[p][Len(address_book[p])] = pre[p][Len(pre[p])]
              /\ record_check_ttl(address_book[p], MaxTime, Ttl)
                    = record_check_ttl(pre[p], MaxTime, Ttl)
        /\ (last.op = "address_record_of_peer" /\ last.peer \in DOMAIN pre) =>
              last.ret = Some(pre[last.peer])

\* The records of a peer with a full record have been read, the least
\* recently used entry being an expirable one: it is still the last one.
C23_Witness ==
    /\ last.op = "address_record_of_peer"
    /\ last.ret # None
    /\ Len(last.ret[1]) = Capacity
    /\ last.ret[1][Capacity].should_expire
    /\ last.ret[1][1].last_seen > last.ret[1][Capacity].last_seen
    /\ address_book[last.peer][Capacity] = last.ret[1][Capacity]

\* The n-th frame the handshake has read is a HolePunch message.
ReadMessage(n) == Len(stream.read) >= n /\ stream.read[n].frame = "message"
\* The handshake has returned r.
Returned(r) == pc = "returned" /\ result = Some(r)
\* The CONNECT message that carries the local candidates.
ConnectOfCandidates ==
    HolePunch(CONNECT, [i \in 1..Len(candidates) |-> to_vec(candidates[i])])

\* C24 as stated: the handshake succeeds only after reading CONNECT with at
\* least one address, sending CONNECT with the candidates and reading SYNC;
\* a first message without addresses yields NoAddresses and a first message
\* of another type yields UnexpectedTypeSync, nothing being sent; a second
\* message that is not SYNC yields UnexpectedTypeConnect; the end of the
\* stream yields an IO error; no returned address is a relayed one.
C24_HandshakeSequence ==
    /\ (result # None /\ result[1].ok) =>
          /\ Len(stream.read) = 2
          /\ ReadMessage(1) /\ stream.read[1].type_pb = CONNECT
          /\ stream.read[1].ObsAddrs # <<>>
          /\ stream.written = <<ConnectOfCandidates>>
          /\ ReadMessage(2) /\ stream.read[2].type_pb = SYNC
          /\ \A i \in 1..Len(result[1].val) :
                "p2p-circuit" \notin Range(result[1].val[i])
    /\ (ReadMessage(1) /\ stream.read[1].ObsAddrs = <<>>) =>
          Returned(Err(Protocol("NoAddresses"))) /\ stream.written = <<>>
    /\ (ReadMessage(1) /\ stream.read[1].type_pb # CONNECT) =>
          Returned(Err(Protocol("UnexpectedTypeSync"))) /\ stream.written = <<>>
    /\ (ReadMessage(2) /\ stream.read[2].type_pb # SYNC) =>
          Returned(Err(Protocol("UnexpectedTypeConnect")))
    /\ (stream.read # <<>> /\ stream.read[Len(stream.read)] = Eof) =>
          Returned(Err(Io("UnexpectedEof")))

\* C24 amended: as above, but the addresses are looked at before the type:
\* a first message without addresses yields NoAddresses whatever its type,
\* and a first message of another type yields UnexpectedTypeSync only when it
\* carries at least one address.  On success the result is the list of the
\* addresses of the first message that parse and are not relayed, in order.
C24_AddressesBeforeType ==
    /\ (result # None /\ result[1].ok) =>
          /\ Len(stream.read) = 2
          /\ ReadMessage(1) /\ stream.read[1].type_pb = CONNECT
          /\ stream.read[1].ObsAddrs # <<>>
          /\ stream.written = <<ConnectOfCandidates>>
          /\ \A i \in 1..Len(candidates) :
                try_from(stream.written[1].ObsAddrs[i]) = Some(candidates[i])
          /\ ReadMessage(2) /\ stream.read[2].type_pb = SYNC
          /\ \A i \in 1..Len(result[1].val) :
                "p2p-circuit" \notin Range(result[1].val[i])
          /\ SelectSeq([i \in 1..Len(stream.read[1].ObsAddrs) |->
                              try_from(stream.read[1].ObsAddrs[i])],
                          LAMBDA a : a # None /\ "p2p-circuit" \notin Range(a[1]))
                = [i \in 1..Len(result[1].val) |-> Some(result[1].val[i])]
    /\ (ReadMessage(1) /\ stream.read[1].ObsAddrs = <<>>) =>
          Returned(Err(Protocol("NoAddresses"))) /\ stream.written = <<>>
    /\ (ReadMessage(1) /\ stream.read[1].type_pb # CONNECT
           /\ stream.read[1].ObsAddrs # <<>>) =>
          Returned(Err(Protocol("UnexpectedTypeSync"))) /\ stream.written = <<>>
    /\ (ReadMessage(2) /\ stream.read[2].type_pb # SYNC) =>
          Returned(Err(Protocol("UnexpectedTypeConnect")))
    /\ (stream.read # <<>> /\ stream.read[Len(stream.read)] = Eof) =>
          Returned(Err(Io("UnexpectedEof")))
    /\ stream.written # <<>> =>
          ReadMessage(1) /\ stream.read[1].type_pb = CONNECT

\* The handshake has succeeded: the remote had sent a direct and a relayed
\* address, and the direct one is returned.
C24_Witness ==
    /\ Returned(Ok(<<Direct>>))
    /\ Len(stream.read[1].ObsAddrs) = 2
    /\ to_vec(Relayed) \in Range(stream.read[1].ObsAddrs)
    /\ candidates # <<>>
    /\ stream.read[2].type_pb = SYNC

====
